---- MODULE Spec2Model ----
(***************************************************************************)
(* WHY.AI recommendation core: hard-constraint filter, weighted soft       *)
(* scorer and discovery injector (backend/scoring.py, backend/discovery.py,*)
(* orchestrated by backend/main.py).                                       *)
(*                                                                         *)
(* Number model.  Python floats are modelled as exact rationals            *)
(* [num, den] in lowest terms.  comfort_score / exploration_score are      *)
(* given in units of 1/Scale (8000 is 0.8), weights in units of            *)
(* 1/WeightDen (50 is 0.50), discovery_ratio in units of 1/RatioDen, and   *)
(* every value produced by round(x, 4) is an integer number of 1/Scale.    *)
(* round() is round-half-to-even, as Python's round.  The input values of  *)
(* the specifications are chosen so that no rounded quantity is an exact   *)
(* decimal tie, where the binary float could fall on either side.          *)
(***************************************************************************)
EXTENDS Integers, Sequences, FiniteSets, TLC

VARIABLES
    items,              \* the catalog list handed to the core
    budget,             \* request constraint: budget
    time,               \* request constraint: time
    preset,             \* request preset name (None when absent)
    pc,                 \* which call completed last
    passed,             \* list returned by apply_hard_constraints
    scorer_input,       \* list given to the last compute_soft_scores call
    slider,             \* comfort_vs_exploration of the last scorer call
    ranked,             \* list returned by the last compute_soft_scores call
    prev_slider,        \* slider of the scorer call before the last one
    prev_ranked,        \* list returned by the scorer call before the last one
    total_count,        \* score_items()["total_count"]
    filtered_out_count, \* score_items()["filtered_out_count"]
    top_n,              \* top_n of the last inject_discovery call
    discovery_ratio,    \* discovery_ratio of the last inject_discovery call
    picks,              \* outcome of random.sample in the last inject call
    results,            \* list returned by inject_discovery: references
                        \* (positions) into ranked, whose dicts it shares
    error,              \* exception raised by the last call, "none" if none
    n_score,            \* number of compute_soft_scores calls made so far
    n_inject,           \* number of inject_discovery calls made so far
    llm,                \* what generate_explanations_llm came back with
    explained,          \* list returned by generate_explanations: references
                        \* (positions) into ranked, whose dicts it shares
    other               \* the variables of a second request in flight

vars == <<items, budget, time, preset, pc, passed, scorer_input, slider,
          ranked, prev_slider, prev_ranked, total_count, filtered_out_count,
          top_n, discovery_ratio, picks, results, error, n_score, n_inject,
          llm, explained, other>>

-----------------------------------------------------------------------------
(* Units and bounds *)

Scale == 10000
WeightDen == 100
RatioDen == 100

MaxItems == 3
MaxTopN == 5
MaxScoreCalls == 2
MaxCatalog == 6
MaxInjectCalls == 2
MaxAnswer == 2

None == "None"

\* the arguments recommend() passes to inject_discovery
DefaultTopN == 5
DefaultRatio == 15

\* generate_explanations_llm was not called yet
NotCalled == [kind |-> "not called"]

\* no second request
NoRun == [pc |-> "absent"]
REASON == "This is shown to broaden your discovery. It satisfies your constraints but explores a different direction."

-----------------------------------------------------------------------------
(* Exact rationals *)

Abs(n) == IF n < 0 THEN -n ELSE n

RECURSIVE GCD(_, _)
GCD(a, b) == IF b = 0 THEN a ELSE GCD(b, a % b)

\* n/d in lowest terms, d > 0
Frac(n, d) ==
    LET g == GCD(Abs(n), d)
    IN  [num |-> n \div g, den |-> d \div g]

One == Frac(1, 1)

FAdd(x, y) ==
    LET g == GCD(x.den, y.den)
    IN  Frac(x.num * (y.den \div g) + y.num * (x.den \div g), x.den * (y.den \div g))
FNeg(x) == [num |-> -x.num, den |-> x.den]
FSub(x, y) == FAdd(x, FNeg(y))
FMul(x, y) == Frac(x.num * y.num, x.den * y.den)

\* Python round(n/d): nearest integer, ties to the even one (d > 0)
RoundHalfEven(n, d) ==
    LET q == n \div d
        r == n % d
    IN  IF 2 * r > d THEN q + 1
        ELSE IF 2 * r < d THEN q
        ELSE IF q % 2 = 0 THEN q ELSE q + 1

\* Python round(x, 4), as a number of 1/Scale
Round4(x) ==
    LET g == GCD(Scale, x.den)
    IN  RoundHalfEven(x.num * (Scale \div g), x.den \div g)

-----------------------------------------------------------------------------
(* scoring.py *)

PRESET_WEIGHTS ==
    [student  |-> [budget_weight |-> 50, time_weight |-> 30, alignment_weight |-> 20],
     saver    |-> [budget_weight |-> 60, time_weight |-> 15, alignment_weight |-> 25],
     explorer |-> [budget_weight |-> 15, time_weight |-> 15, alignment_weight |-> 70],
     default  |-> [budget_weight |-> 35, time_weight |-> 30, alignment_weight |-> 35]]

\* variant: an item priced exactly at the budget is dropped (>= for >)
apply_hard_constraints_ge(its, b, t) ==
    SelectSeq(its, LAMBDA item : ~(item.price >= b) /\ ~(item.time_minutes > t))

\* variant: the time constraint is not applied
apply_hard_constraints_no_time(its, b, t) ==
    SelectSeq(its, LAMBDA item : ~(item.price > b))

apply_hard_constraints(its, b, t) ==
    SelectSeq(its, LAMBDA item : ~(item.price > b) /\ ~(item.time_minutes > t))

\* variant: an unknown preset falls back to the first profile of the table
weights_for_first(p) ==
    IF p \in DOMAIN PRESET_WEIGHTS THEN PRESET_WEIGHTS[p] ELSE PRESET_WEIGHTS["student"]

\* PRESET_WEIGHTS.get(preset, PRESET_WEIGHTS["default"])
weights_for(p) ==
    IF p \in DOMAIN PRESET_WEIGHTS THEN PRESET_WEIGHTS[p] ELSE PRESET_WEIGHTS["default"]

\* variant: the guard lets a zero budget through (>= for >)
budget_guard_ge(b) == b >= 0

\* the conditions guarding the two divisions
budget_guard(b) == b > 0
time_guard(t) == t > 0

\* 1.0 - (item["price"] / budget) if budget > 0 else 1.0
budget_score(item, b) ==
    IF budget_guard(b) THEN FSub(One, Frac(item.price, b)) ELSE One

\* 1.0 - (item["time_minutes"] / time) if time > 0 else 1.0
time_score(item, t) ==
    IF time_guard(t) THEN FSub(One, Frac(item.time_minutes, t)) ELSE One

\* (1 - s) * comfort_score + s * exploration_score
alignment_score(item, s) ==
    FAdd(FMul(FSub(One, s), Frac(item.comfort_score, Scale)),
         FMul(s, Frac(item.exploration_score, Scale)))

\* the weighted composite before rounding
composite(item, b, t, s, w) ==
    FAdd(FAdd(FMul(Frac(w.budget_weight, WeightDen), budget_score(item, b)),
              FMul(Frac(w.time_weight, WeightDen), time_score(item, t))),
         FMul(Frac(w.alignment_weight, WeightDen), alignment_score(item, s)))

\* {**item, "score": ..., "score_breakdown": {...}}: a new dict per item.
\* keys lists which of is_discovery / discovery_reason the dict carries.
scored_item(item, b, t, s, w) ==
    [id                |-> item.id,
     price             |-> item.price,
     time_minutes      |-> item.time_minutes,
     comfort_score     |-> item.comfort_score,
     exploration_score |-> item.exploration_score,
     score             |-> Round4(composite(item, b, t, s, w)),
     score_breakdown   |->
        [budget_efficiency |-> Round4(budget_score(item, b)),
         time_efficiency   |-> Round4(time_score(item, t)),
         alignment         |-> Round4(alignment_score(item, s)),
         weights_used      |-> w],
     keys              |-> {},
     is_discovery      |-> FALSE,
     discovery_reason  |-> "",
     why_recommended   |-> "",
     tradeoffs         |-> "",
     why_others_lower  |-> ""]

\* variant: an unstable sort that puts e before the elements of equal score
InsertDesc_unstable(acc, e) ==
    LET k == Cardinality({i \in DOMAIN acc : acc[i].score > e.score})
    IN  SubSeq(acc, 1, k) \o <<e>> \o SubSeq(acc, k + 1, Len(acc))

\* one step of the stable descending sort: e goes after every element whose
\* score is >= its own (acc is sorted descending)
InsertDesc(acc, e) ==
    LET k == Cardinality({i \in DOMAIN acc : acc[i].score >= e.score})
    IN  SubSeq(acc, 1, k) \o <<e>> \o SubSeq(acc, k + 1, Len(acc))

\* scored.sort(key=lambda x: x["score"], reverse=True): stable
RECURSIVE SortDesc(_)
SortDesc(s) ==
    IF s = <<>> THEN <<>>
    ELSE InsertDesc(SortDesc(SubSeq(s, 1, Len(s) - 1)), s[Len(s)])

\* a division by zero is evaluated in the loop body
soft_scores_raises(its, b, t) ==
    /\ its # <<>>
    /\ \/ budget_guard(b) /\ b = 0
       \/ time_guard(t) /\ t = 0

compute_soft_scores(its, b, t, s, p) ==
    LET weights == weights_for(p)
    IN  SortDesc([i \in DOMAIN its |-> scored_item(its[i], b, t, s, weights)])

-----------------------------------------------------------------------------
(* discovery.py *)

Min(a, b) == IF a < b THEN a ELSE b
Max(a, b) == IF a > b THEN a ELSE b

\* variant: the head is one item short (ranked[:top_n - 1])
head_len_short(rk, n) ==
    IF n - 1 >= 0 THEN Min(n - 1, Len(rk)) ELSE Max(Len(rk) + n - 1, 0)

\* len(ranked[:top_n]), Python slice semantics (a negative top_n counts
\* from the end)
head_len(rk, n) ==
    IF n >= 0 THEN Min(n, Len(rk)) ELSE Max(Len(rk) + n, 0)

\* top_items = ranked[:top_n], as positions of ranked
top_items(rk, n) == [i \in 1..head_len(rk, n) |-> i]

top_ids(rk, n) == {rk[i].id : i \in 1..head_len(rk, n)}

\* positions i, i+1, .. of ranked, in increasing order, whose id is not in ids
RECURSIVE PositionsNotIn(_, _, _)
PositionsNotIn(rk, ids, i) ==
    IF i > Len(rk) THEN <<>>
    ELSE (IF rk[i].id \notin ids THEN <<i>> ELSE <<>>) \o PositionsNotIn(rk, ids, i + 1)

\* variant: the pool is the whole ranked list, head included
discovery_pool_all(rk, n) == PositionsNotIn(rk, {}, 1)

\* [item for item in ranked if item["id"] not in top_ids], as positions
discovery_pool(rk, n) == PositionsNotIn(rk, top_ids(rk, n), 1)

\* variant: without the max(1, ..) floor
num_discovery_no_floor(n, ratio, pool_len) ==
    Min(RoundHalfEven(n * ratio, RatioDen), pool_len)

\* max(1, round(top_n * discovery_ratio)) then min(.., len(discovery_pool))
num_discovery(n, ratio, pool_len) ==
    Min(Max(1, RoundHalfEven(n * ratio, RatioDen)), pool_len)

\* random.sample raises ValueError for a sample larger than the population
\* or negative
sample_raises(pool_len, k) == k > pool_len \/ k < 0

\* every outcome of random.sample(pool, k): k distinct pool elements in any
\* order
Samples(pool, k) ==
    LET R == {pool[i] : i \in DOMAIN pool}
    IN  {s \in [1..k -> R] : \A i, j \in 1..k : i # j => s[i] # s[j]}

\* variant: the head items are not re-flagged
flag_head_skip(rk, n) == rk

\* for item in top_items: item["is_discovery"] = False
flag_head(rk, n) ==
    [i \in DOMAIN rk |->
        IF i <= head_len(rk, n)
        THEN [rk[i] EXCEPT !.keys = @ \cup {"is_discovery"}, !.is_discovery = FALSE]
        ELSE rk[i]]

\* for item in discovery_picks: set is_discovery and discovery_reason
flag_picks(rk, pk) ==
    [i \in DOMAIN rk |->
        IF \E k \in DOMAIN pk : pk[k] = i
        THEN [rk[i] EXCEPT !.keys = @ \cup {"is_discovery", "discovery_reason"},
                           !.is_discovery = TRUE,
                           !.discovery_reason = REASON]
        ELSE rk[i]]

\* list.insert(pos, x) with 0-based pos <= len
ListInsert(l, pos, x) == SubSeq(l, 1, pos) \o <<x>> \o SubSeq(l, pos + 1, Len(l))

\* variant: the picks go to the odd indices 1, 3, ...
insert_pos_odd(i, res) == Min(1 + i * 2, Len(res))

\* the insertion position of the i-th pick (0-based) into res
insert_pos(i, res) == Min(2 + i * 2, Len(res))

\* results = list(top_items); for i, pick in enumerate(picks): insert
RECURSIVE interleave(_, _, _)
interleave(res, pk, i) ==
    IF i >= Len(pk) THEN res
    ELSE interleave(ListInsert(res, insert_pos(i, res), pk[i + 1]), pk, i + 1)

-----------------------------------------------------------------------------
(* explainer.py.  A dict of explanation texts is a record with every text
   field, keys holding the keys that are present; a parsed JSON value is a
   list of such dicts, an object of size members, or null. *)

TextKeys == {"why_recommended", "tradeoffs", "why_others_lower"}

DEFAULT_WHY == "Meets your constraints."
DEFAULT_TRADEOFFS == "No significant tradeoffs identified."
DEFAULT_OTHERS == ""

\* an id no catalog item has
ForeignId == "zz"

\* an explanation dict {"id": i, ...} with the texts w, t, o under keys ks
ExplDict(has, i, ks, w, t, o) ==
    [has_id |-> has, id |-> i, keys |-> ks,
     why_recommended |-> w, tradeoffs |-> t, why_others_lower |-> o]

\* the empty dict {}
EmptyDict == ExplDict(FALSE, "", {}, "", "", "")

JList(es) == [type |-> "list", elems |-> es, size |-> Len(es)]
JObject(n) == [type |-> "object", elems |-> <<>>, size |-> n]
JNull == [type |-> "null", elems |-> <<>>, size |-> 0]

\* generate_explanations_llm: [] without API key or client library and when
\* the call or the parsing raises, else whatever json.loads returned
generate_explanations_llm(outcome) ==
    IF outcome.kind = "json" THEN outcome.value ELSE JList(<<>>)

\* not explanations
falsy(v) == v.size = 0

\* generate_explanations_template: one dict per item, in the items' order
generate_explanations_template(its) ==
    JList([k \in DOMAIN its |->
        ExplDict(TRUE, its[k].id, TextKeys,
            IF "is_discovery" \in its[k].keys /\ its[k].is_discovery
            THEN "Discovery pick! meets your constraints but offers something different"
            ELSE "Scored, saves part of your budget and time",
            IF "is_discovery" \in its[k].keys /\ its[k].is_discovery
            THEN "Exploration-focused pick: may not be your usual preference"
            ELSE "Costs and takes",
            IF k = 1 THEN "Top pick - best balance of your constraints."
            ELSE IF k <= 3 THEN "Strong option, slightly less optimal on one dimension."
            ELSE "Still meets your constraints but scored lower on weighted combination.")])

\* the exception of {e["id"]: e for e in explanations}, "none" if none
expl_map_error(v) ==
    IF v.type # "list" THEN "TypeError"
    ELSE IF \E k \in DOMAIN v.elems : ~v.elems[k].has_id THEN "KeyError"
    ELSE "none"

\* expl_map.get(i, {}): the last dict of es with id i
expl_map_get(es, i) ==
    LET at == {k \in DOMAIN es : es[k].id = i}
    IN  IF at = {} THEN EmptyDict
        ELSE es[CHOOSE k \in at : \A j \in at : j <= k]

\* expl.get(key, default)
dict_get(d, key, default) == IF key \in d.keys THEN d[key] ELSE default

\* the three assignments to the item dict
merge_item(item, expl) ==
    [item EXCEPT !.keys = @ \cup TextKeys,
                 !.why_recommended = dict_get(expl, "why_recommended", DEFAULT_WHY),
                 !.tradeoffs = dict_get(expl, "tradeoffs", DEFAULT_TRADEOFFS),
                 !.why_others_lower = dict_get(expl, "why_others_lower", DEFAULT_OTHERS)]

\* for item in items: merge; the dicts are those of rk at the positions res
merge(rk, res, es) ==
    [i \in DOMAIN rk |->
        IF \E k \in DOMAIN res : res[k] = i
        THEN merge_item(rk[i], expl_map_get(es, rk[i].id))
        ELSE rk[i]]

\* variant: the items come back in the order the explanations name them
RECURSIVE returned_list_by_answer(_, _, _)
returned_list_by_answer(rk, res, es) ==
    IF es = <<>> THEN <<>>
    ELSE SelectSeq(res, LAMBDA i : rk[i].id = es[1].id)
         \o returned_list_by_answer(rk, res, Tail(es))

\* return items
returned_list(rk, res, es) == res

-----------------------------------------------------------------------------
(* Inputs *)

Item(i, p, t, c, e) ==
    [id |-> i, price |-> p, time_minutes |-> t, comfort_score |-> c, exploration_score |-> e]

NoSlider == [num |-> -1, den |-> 1]
Sliders == {Frac(0, 1), Frac(1, 2), Frac(1, 1)}
Presets == {"student", "saver", "explorer", "default", "premium", None}

\* catalog items of the scoring runs; t4 has the numbers of t1
ScoreUniverse ==
    {Item("t1", 1, 1, 8000, 2000), Item("t2", 3, 2, 3000, 9000),
     Item("t3", 2, 3, 9000, 3000), Item("t4", 1, 1, 8000, 2000)}

\* every list of at most n items of U with pairwise distinct ids
ListsOver(U, n) ==
    UNION {{s \in [1..k -> U] : \A i, j \in 1..k : i # j => s[i].id # s[j].id} : k \in 0..n}

\* the variables of a request before any call
NewRun(b, t, p) ==
    [budget |-> b, time |-> t, preset |-> p, pc |-> "start", passed |-> <<>>,
     scorer_input |-> <<>>, slider |-> NoSlider, ranked |-> <<>>,
     prev_slider |-> NoSlider, prev_ranked |-> <<>>, total_count |-> 0,
     filtered_out_count |-> 0, top_n |-> 0, discovery_ratio |-> 0,
     picks |-> <<>>, results |-> <<>>, error |-> "none", n_score |-> 0,
     n_inject |-> 0]

\* the variables of the request that is running
ThisRun ==
    [budget |-> budget, time |-> time, preset |-> preset, pc |-> pc,
     passed |-> passed, scorer_input |-> scorer_input, slider |-> slider,
     ranked |-> ranked, prev_slider |-> prev_slider,
     prev_ranked |-> prev_ranked, total_count |-> total_count,
     filtered_out_count |-> filtered_out_count, top_n |-> top_n,
     discovery_ratio |-> discovery_ratio, picks |-> picks,
     results |-> results, error |-> error, n_score |-> n_score,
     n_inject |-> n_inject]

\* the state before any call, for a request and a second one o
StartBoth(its, b, t, p, o) ==
    /\ items = its
    /\ budget = b
    /\ time = t
    /\ preset = p
    /\ pc = "start"
    /\ passed = <<>>
    /\ scorer_input = <<>>
    /\ slider = NoSlider
    /\ ranked = <<>>
    /\ prev_slider = NoSlider
    /\ prev_ranked = <<>>
    /\ total_count = 0
    /\ filtered_out_count = 0
    /\ top_n = 0
    /\ discovery_ratio = 0
    /\ picks = <<>>
    /\ results = <<>>
    /\ error = "none"
    /\ n_score = 0
    /\ n_inject = 0
    /\ llm = NotCalled
    /\ explained = <<>>
    /\ other = o

\* the state before any call, for a given request
Start(its, b, t, p) == StartBoth(its, b, t, p, NoRun)

\* the catalog of the pipeline runs: p3 is the dearest, p6 the slowest
PipeCatalog ==
    <<Item("p1", 1, 1, 8000, 2000), Item("p2", 2, 2, 3000, 9000),
      Item("p3", 4, 1, 9000, 3000), Item("p4", 1, 3, 4000, 8500),
      Item("p5", 2, 1, 9400, 1000), Item("p6", 1, 4, 5000, 5000),
      Item("p7", 3, 3, 6000, 6000)>>

Ratios == {15, 50, 150}

Init ==
    \E n \in 0..MaxCatalog, b \in {1, 3, 4}, t \in {3, 4}, p \in {None, "explorer"} :
        Start(SubSeq(PipeCatalog, 1, n), b, t, p)

InitScoring ==
    \E its \in ListsOver(ScoreUniverse, MaxItems), b \in {-1, 0, 2, 3}, t \in {0, 2, 3},
       p \in Presets :
        Start(its, b, t, p)

-----------------------------------------------------------------------------
(* Calls *)

\* a direct call of apply_hard_constraints(items, budget, time)
ApplyHardConstraints ==
    /\ pc = "start"
    /\ passed' = apply_hard_constraints(items, budget, time)
    /\ pc' = "filtered"
    /\ UNCHANGED <<items, budget, time, preset, scorer_input, slider, ranked,
                   prev_slider, prev_ranked, total_count, filtered_out_count,
                   top_n, discovery_ratio, picks, results, error, n_score, n_inject,
                   llm, explained, other>>

\* the effect of compute_soft_scores(its, budget, time, s, preset) on the
\* scorer's variables
SoftScoresCall(its, s) ==
    /\ scorer_input' = its
    /\ slider' = s
    /\ prev_slider' = slider
    /\ prev_ranked' = ranked
    /\ n_score' = n_score + 1
    /\ IF soft_scores_raises(its, budget, time)
       THEN /\ error' = "ZeroDivisionError"
            /\ ranked' = <<>>
            /\ pc' = "failed"
       ELSE /\ error' = "none"
            /\ ranked' = compute_soft_scores(its, budget, time, s, preset)
            /\ pc' = "scored"

\* a direct call of compute_soft_scores: on the catalog itself, on the
\* filter's output, or once more on the list it was given before
ComputeSoftScores ==
    /\ pc \in {"start", "filtered", "scored"}
    /\ n_score < MaxScoreCalls
    /\ \E s \in Sliders :
         SoftScoresCall(IF pc = "start" THEN items
                        ELSE IF pc = "filtered" THEN passed
                        ELSE scorer_input, s)
    /\ UNCHANGED <<items, budget, time, preset, passed, total_count,
                   filtered_out_count, top_n, discovery_ratio, picks, results,
                   n_inject, llm, explained, other>>

\* variant: the count of the items that passed is reported as filtered out
filtered_out_passed(total, pl) == Len(pl)

\* filtered_out = total - len(passed)
filtered_out(total, pl) == total - Len(pl)

\* variant: the scorer writes score and score_breakdown into the catalog's
\* own dicts instead of into copies
ScoreItems_inplace ==
    /\ pc = "start"
    /\ n_score < MaxScoreCalls
    /\ total_count' = Len(items)
    /\ passed' = apply_hard_constraints(items, budget, time)
    /\ filtered_out_count' = filtered_out(total_count', passed')
    /\ \E s \in Sliders :
         /\ SoftScoresCall(passed', s)
         /\ items' = [i \in DOMAIN items |->
                        IF items[i].price <= budget /\ items[i].time_minutes <= time
                        THEN scored_item(items[i], budget, time, s,
                                         weights_for(preset))
                        ELSE items[i]]
    /\ UNCHANGED <<budget, time, preset, top_n, discovery_ratio, picks,
                   results, n_inject, llm, explained, other>>

\* score_items(items, budget, time, s, preset): filter, count, score
ScoreItems ==
    /\ pc = "start"
    /\ n_score < MaxScoreCalls
    /\ total_count' = Len(items)
    /\ passed' = apply_hard_constraints(items, budget, time)
    /\ filtered_out_count' = filtered_out(total_count', passed')
    /\ \E s \in Sliders : SoftScoresCall(passed', s)
    /\ UNCHANGED <<items, budget, time, preset, top_n, discovery_ratio, picks,
                   results, n_inject, llm, explained, other>>

\* inject_discovery(ranked, ranked, n, ratio) on the list returned by the
\* scorer; pk is the outcome of random.sample.  The call writes the flags
\* into the dicts of ranked, which the returned list shares.
InjectCall(n, ratio) ==
    LET head == top_items(ranked, n)
        pool == discovery_pool(ranked, n)
        k    == num_discovery(n, ratio, Len(pool))
    IN  /\ top_n' = n
        /\ discovery_ratio' = ratio
        /\ IF pool = <<>>
           THEN /\ ranked' = flag_head(ranked, n)
                /\ picks' = <<>>
                /\ results' = head
                /\ error' = "none"
                /\ pc' = "injected"
           ELSE IF sample_raises(Len(pool), k)
           THEN /\ ranked' = flag_head(ranked, n)
                /\ picks' = <<>>
                /\ results' = <<>>
                /\ error' = "ValueError"
                /\ pc' = "failed"
           ELSE \E pk \in Samples(pool, k) :
                /\ ranked' = flag_picks(flag_head(ranked, n), pk)
                /\ picks' = pk
                /\ results' = interleave(head, pk, 0)
                /\ error' = "none"
                /\ pc' = "injected"
        /\ n_inject' = n_inject + 1
        /\ UNCHANGED <<items, budget, time, preset, passed, scorer_input, slider,
                       prev_slider, prev_ranked, total_count, filtered_out_count,
                       n_score, llm, explained, other>>

\* a call of inject_discovery with any top_n and ratio, also a repeated one
\* on the same ranked list
InjectDiscovery ==
    /\ pc \in {"scored", "injected"}
    /\ n_inject < MaxInjectCalls
    /\ \E n \in -1..MaxTopN, ratio \in Ratios : InjectCall(n, ratio)

\* the call recommend() makes: top_n=5, discovery_ratio=0.15
RecommendInject ==
    /\ pc = "scored"
    /\ InjectCall(DefaultTopN, DefaultRatio)

\* the items of the returned list (results refers to the dicts of ranked)
ResultItems == [k \in DOMAIN results |-> ranked[results[k]]]

\* the lists of at most n dicts of U
Answers(U, n) == UNION {[1..k -> U] : k \in 0..n}

\* the ids an answer of the model may name: those of the first two items
\* and a foreign one
AnswerIds(its) == {its[k].id : k \in DOMAIN its \cap 1..2} \cup {ForeignId}

\* the dicts an answer may hold: complete, with an id only, without an id
AnswerDicts(its) ==
    {ExplDict(TRUE, i, TextKeys, "llm why", "llm tradeoffs", "llm others") :
        i \in AnswerIds(its)}
    \cup {ExplDict(TRUE, i, {}, "", "", "") : i \in AnswerIds(its)}
    \cup {ExplDict(FALSE, "", TextKeys, "llm why", "llm tradeoffs", "llm others")}

\* what the explanation step can come back with for the items its
LLMOutcomes(its) ==
    {[kind |-> "unavailable"], [kind |-> "raises"]}
    \cup {[kind |-> "json", value |-> v] : v \in {JNull, JObject(0), JObject(1)}}
    \cup {[kind |-> "json", value |-> JList(es)] :
            es \in Answers(AnswerDicts(its), MaxAnswer)}

\* generate_explanations(query, constraints, results) as recommend() calls it
GenerateExplanations ==
    /\ pc = "injected"
    /\ \E outcome \in LLMOutcomes(ResultItems) :
         LET first == generate_explanations_llm(outcome)
             expls == IF falsy(first) THEN generate_explanations_template(ResultItems)
                      ELSE first
         IN  /\ llm' = outcome
             /\ error' = expl_map_error(expls)
             /\ IF expl_map_error(expls) # "none"
                THEN /\ pc' = "failed"
                     /\ UNCHANGED <<ranked, explained>>
                ELSE /\ pc' = "explained"
                     /\ ranked' = merge(ranked, results, expls.elems)
                     /\ explained' = returned_list(ranked, results, expls.elems)
    /\ UNCHANGED <<items, budget, time, preset, passed, scorer_input, slider,
                   prev_slider, prev_ranked, total_count, filtered_out_count,
                   top_n, discovery_ratio, picks, results, n_score, n_inject,
                   other>>

\* the other request in flight gets to run: its variables become the
\* current ones; the catalog list is the one both requests were handed
SwitchRun ==
    /\ other.pc # "absent"
    /\ other' = ThisRun
    /\ budget' = other.budget
    /\ time' = other.time
    /\ preset' = other.preset
    /\ pc' = other.pc
    /\ passed' = other.passed
    /\ scorer_input' = other.scorer_input
    /\ slider' = other.slider
    /\ ranked' = other.ranked
    /\ prev_slider' = other.prev_slider
    /\ prev_ranked' = other.prev_ranked
    /\ total_count' = other.total_count
    /\ filtered_out_count' = other.filtered_out_count
    /\ top_n' = other.top_n
    /\ discovery_ratio' = other.discovery_ratio
    /\ picks' = other.picks
    /\ results' = other.results
    /\ error' = other.error
    /\ n_score' = other.n_score
    /\ n_inject' = other.n_inject
    /\ UNCHANGED <<items, llm, explained>>

NextScoring == ApplyHardConstraints \/ ComputeSoftScores

\* the pipeline of recommend(): score_items, then inject_discovery
Next == ScoreItems \/ InjectDiscovery

Spec == Init /\ [][Next]_vars

SpecScoring == InitScoring /\ [][NextScoring]_vars

\* items A ("a") and B ("b") whose scores differ by less than 1/Scale
SliderUniverse ==
    {Item("a", 1, 1, 5000, 4992), Item("b", 0, 4, 4999, 4993)}

InitSlider ==
    \E its \in ListsOver(SliderUniverse, 2), p \in Presets :
        Start(its, 31, 56, p)

SpecSlider == InitSlider /\ [][NextScoring]_vars

\* recommend(): score_items, inject_discovery, generate_explanations
NextRecommend == ScoreItems \/ RecommendInject \/ GenerateExplanations

SpecRecommend == Init /\ [][NextRecommend]_vars

\* two pipeline runs over the same catalog list, their calls interleaved
InitRuns ==
    \E n \in 0..MaxCatalog, b \in {1, 3, 4}, t \in {3, 4}, p \in {None, "explorer"},
       b2 \in {3, 4}, p2 \in {None, "student"} :
        StartBoth(SubSeq(PipeCatalog, 1, n), b, t, p, NewRun(b2, 4, p2))

NextRuns == ScoreItems \/ RecommendInject \/ SwitchRun

SpecRuns == InitRuns /\ [][NextRuns]_vars

-----------------------------------------------------------------------------
(* Properties of the filter and the scorer *)

\* positions of the catalog whose item satisfies both hard constraints
PassIdx ==
    {i \in DOMAIN items : items[i].price <= budget /\ items[i].time_minutes <= time}

\* C1: apply_hard_constraints returns exactly the items with price <= budget
\* and time_minutes <= time, in the order of the input: its k-th element is
\* the item at the k-th smallest passing position.
C1_HardFilterExact ==
    pc = "filtered" =>
        /\ Len(passed) = Cardinality(PassIdx)
        /\ \A k \in DOMAIN passed :
             \E i \in PassIdx :
                /\ Cardinality({j \in PassIdx : j <= i}) = k
                /\ passed[k] = items[i]

\* C1 witness: the filter ran and removed some items but not all
C1_Witness ==
    /\ pc = "filtered"
    /\ passed # <<>>
    /\ Len(passed) < Len(items)
    /\ \E i \in DOMAIN items : items[i].price > budget
    /\ \E i \in DOMAIN items : items[i].price <= budget /\ items[i].time_minutes > time

\* position of the item with identity i in the list l
PosOf(l, i) == CHOOSE k \in DOMAIN l : l[k].id = i

\* C3: the scorer's output is a permutation of its input, descending by
\* score, items of equal score in the order of the input.
C3_SortedStable ==
    pc = "scored" =>
        /\ Len(ranked) = Len(scorer_input)
        /\ \A k \in DOMAIN scorer_input :
             \E i \in DOMAIN ranked :
                /\ ranked[i].id = scorer_input[k].id
                /\ ranked[i].price = scorer_input[k].price
                /\ ranked[i].time_minutes = scorer_input[k].time_minutes
                /\ ranked[i].comfort_score = scorer_input[k].comfort_score
                /\ ranked[i].exploration_score = scorer_input[k].exploration_score
        /\ \A i, j \in DOMAIN ranked :
             i < j =>
                \/ ranked[i].score > ranked[j].score
                \/ /\ ranked[i].score = ranked[j].score
                   /\ PosOf(scorer_input, ranked[i].id) < PosOf(scorer_input, ranked[j].id)

\* C3 witness: a scored list with a tie and with a strict descent
C3_Witness ==
    /\ pc = "scored"
    /\ \E i, j \in DOMAIN ranked : i < j /\ ranked[i].score = ranked[j].score
    /\ \E i, j \in DOMAIN ranked : i < j /\ ranked[i].score > ranked[j].score
    /\ \E i, j \in DOMAIN ranked :
         i < j /\ PosOf(scorer_input, ranked[i].id) > PosOf(scorer_input, ranked[j].id)

\* v is a nearest integer to n/d (d > 0)
IsRounded(v, n, d) == 2 * Abs(v * d - n) <= d

\* C4: score is the weighted sum of the three sub-scores rounded to 4
\* decimals, with efficiency 1 - cost/limit for a positive limit and 1.0
\* otherwise, alignment the slider's interpolation of comfort_score and
\* exploration_score; score_breakdown holds the sub-scores to 4 decimals and
\* the weights; no call divides by zero.
C4_ScoreFormula ==
    /\ error # "ZeroDivisionError"
    /\ pc = "scored" =>
         \A i \in DOMAIN ranked :
            LET r  == ranked[i]
                w  == r.score_breakdown.weights_used
                Bn == IF budget > 0 THEN budget - r.price ELSE 1
                Bd == IF budget > 0 THEN budget ELSE 1
                Tn == IF time > 0 THEN time - r.time_minutes ELSE 1
                Td == IF time > 0 THEN time ELSE 1
                An == (slider.den - slider.num) * r.comfort_score
                        + slider.num * r.exploration_score
                Ad == slider.den
            IN  /\ w \in {PRESET_WEIGHTS[k] : k \in DOMAIN PRESET_WEIGHTS}
                /\ IsRounded(r.score,
                             Scale * Ad * (w.budget_weight * Bn * Td + w.time_weight * Tn * Bd)
                                + w.alignment_weight * An * Bd * Td,
                             WeightDen * Bd * Td * Ad)
                /\ IsRounded(r.score_breakdown.budget_efficiency, Scale * Bn, Bd)
                /\ IsRounded(r.score_breakdown.time_efficiency, Scale * Tn, Td)
                /\ IsRounded(r.score_breakdown.alignment, An, Ad)
                /\ slider.num = 0 => r.score_breakdown.alignment = r.comfort_score
                /\ slider.num = slider.den => r.score_breakdown.alignment = r.exploration_score

\* C4 witness: items were scored with budget <= 0 (efficiency 1.0) at a
\* slider strictly between 0 and 1, with a time efficiency strictly between
\* 0 and 1
C4_Witness ==
    /\ pc = "scored"
    /\ budget <= 0
    /\ time > 0
    /\ slider = Frac(1, 2)
    /\ \E i \in DOMAIN ranked :
         /\ ranked[i].score_breakdown.budget_efficiency = Scale
         /\ ranked[i].score_breakdown.time_efficiency \notin {0, Scale}

\* C5: the profile named by preset is applied for the four known names and
\* the default profile for every other value; no preset raises.
C5_PresetFallback ==
    /\ error = "none"
    /\ pc = "scored" =>
         \A i \in DOMAIN ranked :
            ranked[i].score_breakdown.weights_used =
               CASE preset = "student" ->
                      [budget_weight |-> 50, time_weight |-> 30, alignment_weight |-> 20]
                 [] preset = "saver" ->
                      [budget_weight |-> 60, time_weight |-> 15, alignment_weight |-> 25]
                 [] preset = "explorer" ->
                      [budget_weight |-> 15, time_weight |-> 15, alignment_weight |-> 70]
                 [] OTHER ->
                      [budget_weight |-> 35, time_weight |-> 30, alignment_weight |-> 35]

\* C5 witness: items were scored under an unrecognised or absent preset
C5_Witness ==
    /\ pc = "scored"
    /\ ranked # <<>>
    /\ preset \in {"premium", None}

\* B is placed before A in the list l
Before(l, b, a) == PosOf(l, b) < PosOf(l, a)

\* C6: with the same input, budget, time and preset, if B (lower comfort,
\* higher exploration than A) is placed before A at slider 0, it is placed
\* before A at slider 1.
C6_SliderMonotone ==
    (pc = "scored" /\ n_score = 2 /\ prev_slider = Frac(0, 1) /\ slider = Frac(1, 1)) =>
        \A a, b \in DOMAIN scorer_input :
            LET A == scorer_input[a]
                B == scorer_input[b]
            IN  (/\ A.comfort_score > B.comfort_score
                 /\ A.exploration_score < B.exploration_score
                 /\ Before(prev_ranked, B.id, A.id))
                => Before(ranked, B.id, A.id)

-----------------------------------------------------------------------------
(* Properties of the pipeline and the injector *)

\* positions of the head ranked[0:top_n] of the last inject_discovery call
HeadPos ==
    {i \in DOMAIN ranked : IF top_n >= 0 THEN i <= top_n ELSE i <= Len(ranked) + top_n}

\* C2: every item of the list returned by score_items followed by
\* inject_discovery, discovery items included, has price <= budget and
\* time_minutes <= time.
C2_FinalListWithinConstraints ==
    pc = "injected" =>
        \A k \in DOMAIN results :
            /\ results[k] \in DOMAIN ranked
            /\ ResultItems[k].price <= budget
            /\ ResultItems[k].time_minutes <= time

\* C2 witness: the filter removed an item for its price and one for its
\* time, and the final list has a discovery item
C2_Witness ==
    /\ pc = "injected"
    /\ \E i \in DOMAIN items : items[i].price > budget
    /\ \E i \in DOMAIN items : items[i].price <= budget /\ items[i].time_minutes > time
    /\ \E k \in DOMAIN results : ResultItems[k].is_discovery

\* C7: the list returned by inject_discovery contains no id twice.
C7_NoDuplicateIds ==
    pc = "injected" =>
        \A i, j \in DOMAIN results : i # j => ResultItems[i].id # ResultItems[j].id

\* C7 witness: a returned list with head items and at least two picks
C7_Witness ==
    /\ pc = "injected"
    /\ Len(picks) >= 2
    /\ Len(results) >= 4

\* C8: every returned item carries is_discovery, False for the head items and
\* True for the picked items, and every item flagged True carries a non-empty
\* discovery_reason.
C8_FlagsComplete ==
    pc = "injected" =>
        /\ \A k \in DOMAIN results : "is_discovery" \in ResultItems[k].keys
        /\ \A i \in HeadPos :
             /\ \E k \in DOMAIN results : results[k] = i
             /\ ~ranked[i].is_discovery
        /\ \A j \in DOMAIN picks :
             /\ \E k \in DOMAIN results : results[k] = picks[j]
             /\ ranked[picks[j]].is_discovery
        /\ \A k \in DOMAIN results :
             ResultItems[k].is_discovery =>
                /\ "discovery_reason" \in ResultItems[k].keys
                /\ ResultItems[k].discovery_reason # ""

\* C8 witness: a second call whose head holds an item picked by the first
\* call, next to a newly picked item
C8_Witness ==
    /\ pc = "injected"
    /\ n_inject = 2
    /\ picks # <<>>
    /\ \E i \in HeadPos : "discovery_reason" \in ranked[i].keys

\* C9: with no ranked item outside the head (len(ranked) <= top_n, or an
\* empty ranked list), the
\* returned list is the head itself, in rank order, with no discovery item
\* and no error.
C9_EmptyPoolReturnsHead ==
    (pc \in {"injected", "failed"} /\ n_inject > 0 /\ HeadPos = DOMAIN ranked) =>
        /\ pc = "injected"
        /\ error = "none"
        /\ results = [i \in 1..Len(ranked) |-> i]
        /\ \A k \in DOMAIN results : ~ResultItems[k].is_discovery

\* C9 witness: a call on a non-empty ranked list that fits in the head
C9_Witness ==
    /\ pc = "injected"
    /\ ranked # <<>>
    /\ Len(ranked) <= top_n

\* C10: with a non-empty pool the returned list holds exactly
\* clamp(round(top_n * discovery_ratio), 1, len(pool)) discovery items
\* (round to nearest, ties to even), pairwise distinct, after which the
\* length is len(head) plus that number; the sample never raises.
C10_DiscoveryCount ==
    /\ error # "ValueError"
    /\ (pc = "injected" /\ HeadPos # DOMAIN ranked) =>
         LET pool_size == Len(ranked) - Cardinality(HeadPos)
             prod      == top_n * discovery_ratio
             r         == CHOOSE v \in -(MaxTopN + 2) * 2 .. (MaxTopN + 2) * 2 :
                            /\ IsRounded(v, prod, RatioDen)
                            /\ 2 * Abs(v * RatioDen - prod) = RatioDen => v % 2 = 0
             want      == IF r < 1 THEN 1 ELSE IF r > pool_size THEN pool_size ELSE r
             flagged   == {k \in DOMAIN results : ResultItems[k].is_discovery}
         IN  /\ want >= 1
             /\ Cardinality(flagged) = want
             /\ Cardinality({results[k] : k \in flagged}) = want
             /\ Len(results) = Cardinality(HeadPos) + want

\* C10 witness: the rounded number is used as it is (two picks from a larger
\* pool)
C10_Witness ==
    /\ pc = "injected"
    /\ Len(picks) = 2
    /\ Len(ranked) - Cardinality(HeadPos) > 2
    /\ HeadPos # {}

\* C11: score_items returns total_count = len(items), filtered_out_count =
\* total_count minus the number of items passing the hard filter, and a
\* ranked list of total_count - filtered_out_count items that all carry
\* score and score_breakdown; for the empty catalog the list is empty and
\* both counts are 0.
C11_ScoreItemsCounts ==
    (pc = "scored" /\ n_inject = 0) =>
        /\ total_count = Len(items)
        /\ filtered_out_count = total_count - Cardinality(PassIdx)
        /\ Len(ranked) = total_count - filtered_out_count
        /\ \A i \in DOMAIN ranked :
             /\ {"score", "score_breakdown"} \subseteq DOMAIN ranked[i]
             /\ {"budget_efficiency", "time_efficiency", "alignment", "weights_used"}
                   \subseteq DOMAIN ranked[i].score_breakdown
        /\ items = <<>> => (ranked = <<>> /\ total_count = 0 /\ filtered_out_count = 0)

\* C11 witness: score_items returned after the filter removed some items and
\* kept others
C11_Witness ==
    /\ pc = "scored"
    /\ n_inject = 0
    /\ filtered_out_count > 0
    /\ Len(ranked) > 1
    /\ Len(ranked) # filtered_out_count

-----------------------------------------------------------------------------
(* Properties of the injection order and of repeated calls *)

\* the list after the first j picks of the last call were inserted
Built(j) == interleave(top_items(ranked, top_n), SubSeq(picks, 1, j), 0)

\* the index (0-based) of the k-th pick (0-based) in the returned list
FinalIndex(k) == Min(2 + 2 * k, Cardinality(HeadPos) + k)

\* C14: the returned list keeps the head items in rank order; the k-th pick
\* (from 0) is inserted at index min(2 + 2k, length of the list built so
\* far), sits at index min(2 + 2k, len(head) + k) of the final list, and no
\* later insertion moves it.
C14_InsertionOrder ==
    pc = "injected" =>
        /\ \A k1, k2 \in DOMAIN results :
             (k1 < k2 /\ results[k1] \in HeadPos /\ results[k2] \in HeadPos)
                => results[k1] < results[k2]
        /\ \A k \in 0..(Len(picks) - 1) :
             /\ Built(k + 1)[Min(2 + 2 * k, Len(Built(k))) + 1] = picks[k + 1]
             /\ results[FinalIndex(k) + 1] = picks[k + 1]
             /\ \A j \in (k + 1)..Len(picks) :
                  Built(j)[FinalIndex(k) + 1] = picks[k + 1]

\* C14 witness: two picks went into a head of at least three items, the
\* second one two places behind the first
C14_Witness ==
    /\ pc = "injected"
    /\ Len(picks) >= 2
    /\ Cardinality(HeadPos) >= 3
    /\ results[3] = picks[1]
    /\ results[5] = picks[2]

\* C15: after any sequence of inject_discovery calls on the same ranked
\* list, an item of the returned list carries discovery_reason only if its
\* is_discovery is true; a head item never carries a reason left over from
\* an earlier call.
C15_ReasonOnlyOnDiscovery ==
    pc = "injected" =>
        \A k \in DOMAIN results :
            "discovery_reason" \in ResultItems[k].keys => ResultItems[k].is_discovery

-----------------------------------------------------------------------------
(* Properties of the explanation step *)

\* the explanation step came back with nothing (unavailable, failure) or
\* with a list of dicts that all name an id: in any order, for any subset of
\* the items' ids, for foreign ids
ListedOutcome(o) ==
    \/ o.kind \in {"unavailable", "raises"}
    \/ /\ o.kind = "json"
       /\ o.value.type = "list"
       /\ \A k \in DOMAIN o.value.elems : o.value.elems[k].has_id

Unusable(v) ==
    \/ v.type # "list"
    \/ \E k \in DOMAIN v.elems : ~v.elems[k].has_id

\* C13: when the explanation collaborator is unavailable, fails, or gives
\* an unusable answer, no exception reaches the caller and every returned
\* item carries why_recommended, tradeoffs and why_others_lower, each a
\* non-empty text.
C13_FallbackTexts ==
    (\/ llm.kind \in {"unavailable", "raises"}
     \/ (llm.kind = "json" /\ Unusable(llm.value)))
    =>  /\ error = "none"
        /\ pc = "explained"
        /\ \A k \in DOMAIN explained :
             LET r == ranked[explained[k]]
             IN  /\ TextKeys \subseteq r.keys
                 /\ r.why_recommended # ""
                 /\ r.tradeoffs # ""
                 /\ r.why_others_lower # ""

-----------------------------------------------------------------------------
(* Properties of runs over a shared catalog *)

\* the catalog as it was loaded
Loaded == SubSeq(PipeCatalog, 1, Len(items))

\* the ids and scores of a ranked list, in order
IdsScores(rk) == [i \in DOMAIN rk |-> <<rk[i].id, rk[i].score>>]

\* what the run r would rank on its own over the loaded catalog
Alone(r) ==
    compute_soft_scores(apply_hard_constraints(Loaded, r.budget, r.time),
                        r.budget, r.time, r.slider, r.preset)

\* the run r ranked as it would alone, and the table entry its items refer
\* to as weights_used still holds the profile's numbers
RunAsAlone(r) ==
    r.pc \in {"scored", "injected"} =>
        /\ IdsScores(r.ranked) = IdsScores(Alone(r))
        /\ \A i \in DOMAIN r.ranked :
             r.ranked[i].score_breakdown.weights_used
                = PRESET_WEIGHTS[IF r.preset \in DOMAIN PRESET_WEIGHTS
                                 THEN r.preset ELSE "default"]

\* C16: a pipeline run leaves every field of every catalog item and every
\* entry of PRESET_WEIGHTS unchanged, so each of two runs over the same
\* catalog list, in any order or interleaving, returns the ranked ids and
\* scores it would return alone.
C16_RunsIndependent ==
    /\ items = Loaded
    /\ RunAsAlone(ThisRun)
    /\ other.pc # "absent" => RunAsAlone(other)

\* C16 witness: one run has injected a discovery item while the other, with
\* another ranking of the same catalog, is between its two calls
C16_Witness ==
    /\ pc = "injected"
    /\ picks # <<>>
    /\ other.pc = "scored"
    /\ Len(other.ranked) > 1
    /\ Len(ranked) > 1
    /\ IdsScores(ranked) # IdsScores(other.ranked)
    /\ ranked[1].id # other.ranked[1].id

====
